---- MODULE Spec2Model ----
(***************************************************************************)
(* Resident shift scheduler (app.py): the calendar/capacity derivation,    *)
(* the hard constraints posted by build_and_solve, the Absolute-request    *)
(* pre-check validate_A_requests, the capacity pre-check, the run button   *)
(* handler and the single-exclusion probe find_blocking_A_once.  The       *)
(* CP-SAT solver is external: a solve attempt returns                      *)
(* a verdict and, for OPTIMAL/FEASIBLE, any assignment that satisfies      *)
(* every posted constraint.                                                *)
(*                                                                         *)
(* A month is scaled down to NumDays days; x[d][i] is the set of shift     *)
(* kinds staff i holds on day d (the Boolean x[(d, s, i)] is s \in x[d][i]).*)
(***************************************************************************)
EXTENDS Integers, Sequences, FiniteSets, TLC

VARIABLES
    start_wd,                   \* weekday() of all_days[0] (0 = Monday)
    D,                          \* len(all_days)
    holidays, closed_days,      \* sets of day indices
    special_map,                \* day index -> drop_shift ("none": no entry)
    staff_grade,                \* staff_df["grade"], in roster order
    per_person_total, max_consecutive,
    allow_day3, allow_weekend_icu,
    max_weekend_icu_total, max_weekend_icu_per_person,
    s_fairness,                 \* fairness star selector (1..3)
    s_pref_b, s_pref_c,         \* B / C preference star selectors (1..3)
    fix_repro, seed_val,        \* reproducibility checkbox and seed
    prefs,                      \* st.session_state.prefs
    pins,                       \* st.session_state.pins
    pc,                         \* position of the script
    status,                     \* status string of the last solve attempt
    x,                          \* solved assignment of the last attempt
    attempts,                   \* parameters of each build_and_solve call
    out,                        \* messages shown to the user
    issues,                     \* list returned by validate_A_requests
    verdict,                    \* raw solver verdict handed to status_map
    parameters,                 \* solver parameter blocks set up so far
    probe,                      \* locals of find_blocking_A_once
    projection,                 \* B/C satisfaction counts shown with the result
    models                      \* models built so far, each with its feasible set

inputs == <<start_wd, D, holidays, closed_days, special_map, staff_grade,
            per_person_total, max_consecutive, allow_day3, allow_weekend_icu,
            max_weekend_icu_total, max_weekend_icu_per_person, s_fairness,
            s_pref_b, s_pref_c, fix_repro, seed_val, pins>>
calls == <<issues, verdict, parameters, probe>>
views == <<projection, models>>
vars == <<inputs, prefs, pc, status, x, attempts, out, calls, views>>

----------------------------------------------------------------------------
(* Bounds of the model *)
NumDays == 4
MaxPrefs == 2
MaxPins == 1

----------------------------------------------------------------------------
(* Program constants *)
SHIFTS == <<"ER_Early", "ER_Day1", "ER_Day2", "ER_Day3", "ER_Late", "ICU", "VAC">>
ER_BASE == <<"ER_Early", "ER_Day1", "ER_Late">>

ShiftSet == {SHIFTS[k] : k \in 1..Len(SHIFTS)}
BaseSet == {ER_BASE[k] : k \in 1..Len(ER_BASE)}

STAR_TO_FAIR_SLACK(s) ==
    CASE s = 1 -> 3
      [] s = 2 -> 2
      [] s = 3 -> 1
      [] OTHER -> 2

STAR_TO_WEIGHT_PREF_B(s) ==
    CASE s = 1 -> 10
      [] s = 2 -> 25
      [] s = 3 -> 50

STAR_TO_WEIGHT_PREF_C(s) ==
    CASE s = 1 -> 5
      [] s = 2 -> 12
      [] s = 3 -> 25

weight_pref_B == STAR_TO_WEIGHT_PREF_B(s_pref_b)
weight_pref_C == STAR_TO_WEIGHT_PREF_C(s_pref_c)

----------------------------------------------------------------------------
(* Roster and calendar *)
N == Len(staff_grade)
Staff == 0..(N - 1)
Days == 0..(D - 1)
grade(i) == staff_grade[i + 1]
J1_idx == {i \in Staff : grade(i) = "J1"}
J2_idx == {i \in Staff : grade(i) = "J2"}

weekday(d) == (start_wd + d) % 7
InPeriod(date) == date \in Days
KnownName(nm) == nm \in Staff

(* closed days left out of the forbidden set *)
DAY2_FORBID_LOCAL_NoClosed == {d \in Days : weekday(d) >= 5} \cup holidays

DAY2_FORBID_LOCAL == {d \in Days : weekday(d) >= 5} \cup holidays \cup closed_days
ICU_ALLOWED_DAYS_LOCAL ==
    IF allow_weekend_icu THEN Days ELSE {d \in Days : weekday(d) < 5}

Drop(d) == IF special_map[d] \in BaseSet THEN special_map[d] ELSE "none"

Req(d, base) == IF Drop(d) = base THEN 0 ELSE 1
AllowD2(d) == weekday(d) < 5 /\ d \notin DAY2_FORBID_LOCAL
AllowD3(d) == AllowD2(d) /\ allow_day3
AllowICU(d) == d \in ICU_ALLOWED_DAYS_LOCAL

DAY(d) ==
    [req |-> [b \in BaseSet |-> Req(d, b)],
     allow_d2 |-> AllowD2(d),
     allow_d3 |-> AllowD3(d),
     allow_icu |-> AllowICU(d),
     drop |-> Drop(d)]

----------------------------------------------------------------------------
(* Decision variables.  A cell c is the set of kinds one staff member     *)
(* holds on one day; a row r is one day's cells, staff -> cell.           *)
Val(c, s) == IF s \in c THEN 1 ELSE 0
Count(r, s) == Cardinality({i \in Staff : s \in r[i]})
AssignedCount(ax, i, ds) ==
    Cardinality(UNION {{<<d, s>> : s \in ax[d][i]} : d \in ds})
KindCount(ax, i, s) == Cardinality({d \in Days : s \in ax[d][i]})

(* build_and_solve: the hard constraints on one (d, i), on its cell c *)
OneKindPerDay(c) == Cardinality(c) <= 1

(* ICU open to J1 *)
J1NoICU_Lifted(i, c) == TRUE

J1NoICU(i, c) == i \in J1_idx => Val(c, "ICU") = 0

PinApplies(pin) ==
    InPeriod(pin.date) /\ pin.shift \in ShiftSet /\ KnownName(pin.name)

PinsHold(d, i, c) ==
    \A k \in 1..Len(pins) :
        (pins[k].date = d /\ pins[k].name = i /\ PinApplies(pins[k]))
            => Val(c, pins[k].shift) = 1

(* prefs list p: the (d, i) for which a vacation request of tier A/B/C exists *)
allow_vac(p) ==
    {<<p[k].date, p[k].name>> : k \in
        {k \in 1..Len(p) : /\ p[k].kind = "vacation"
                           /\ p[k].priority \in {"A", "B", "C"}
                           /\ InPeriod(p[k].date) /\ KnownName(p[k].name)}}

(* VAC open to everybody *)
VacOptIn_Lifted(d, i, c, p) == TRUE

VacOptIn(d, i, c, p) == <<d, i>> \notin allow_vac(p) => Val(c, "VAC") = 0

(* A requests for day / icu are treated as B *)
EffPriority(rec) ==
    IF rec.priority = "A" /\ rec.kind \in {"day", "icu"} THEN "B" ELSE rec.priority

PrefApplies(rec) == InPeriod(rec.date) /\ KnownName(rec.name)

(* the A request is posted as a hard constraint (not appended to pref_soft) *)
AHard(rec) ==
    /\ PrefApplies(rec)
    /\ EffPriority(rec) = "A"
    /\ \/ rec.kind = "off"
       \/ rec.kind = "early" /\ Req(rec.date, "ER_Early") = 1
       \/ rec.kind = "late" /\ Req(rec.date, "ER_Late") = 1
       \/ rec.kind = "day1" /\ Req(rec.date, "ER_Day1") = 1
       \/ rec.kind = "day2" /\ AllowD2(rec.date)
       \/ rec.kind = "vacation"

AShift(kind) ==
    CASE kind = "early" -> "ER_Early"
      [] kind = "late" -> "ER_Late"
      [] kind = "day1" -> "ER_Day1"
      [] kind = "day2" -> "ER_Day2"
      [] kind = "vacation" -> "VAC"
      [] OTHER -> "none"

(* an A "off" request that posts no constraint *)
AConstraint_OffIgnored(rec, c) ==
    IF rec.kind = "off"
    THEN TRUE
    ELSE Val(c, AShift(rec.kind)) = 1

AConstraint(rec, c) ==
    IF rec.kind = "off"
    THEN Cardinality(c) = 0
    ELSE Val(c, AShift(rec.kind)) = 1

AbsoluteHold(d, i, c, p) ==
    \A k \in 1..Len(p) :
        (p[k].date = d /\ p[k].name = i /\ AHard(p[k])) => AConstraint(p[k], c)

CellOK(d, i, c, p) ==
    /\ OneKindPerDay(c)
    /\ J1NoICU(i, c)
    /\ PinsHold(d, i, c)
    /\ VacOptIn(d, i, c, p)
    /\ AbsoluteHold(d, i, c, p)

(* base kinds staffed at most, instead of exactly, as required *)
BaseCoverage_AtMost(d, r) == \A base \in BaseSet : Count(r, base) <= Req(d, base)

(* build_and_solve: the hard constraints on one day d, on its row r *)
BaseCoverage(d, r) == \A base \in BaseSet : Count(r, base) = Req(d, base)

OptionalCaps(d, r) ==
    /\ Count(r, "ER_Day2") <= (IF AllowD2(d) THEN 1 ELSE 0)
    /\ Count(r, "ER_Day3") <= (IF AllowD3(d) THEN 1 ELSE 0)
    /\ Count(r, "ICU") <= (IF AllowICU(d) THEN 1 ELSE 0)

(* ER_Day2 and ER_Day3 not tied to ER_Day1 *)
Day1Linkage_Unlinked(r) == TRUE

Day1Linkage(r) ==
    /\ Count(r, "ER_Day2") <= Count(r, "ER_Day1")
    /\ Count(r, "ER_Day3") <= Count(r, "ER_Day1")

RowOK(d, r, p) ==
    /\ \A i \in Staff : CellOK(d, i, r[i], p)
    /\ BaseCoverage(d, r)
    /\ OptionalCaps(d, r)
    /\ Day1Linkage(r)

(* build_and_solve: the hard constraints that span days *)
WorkedDays(ax, i, ds) == Cardinality({d \in ds : ax[d][i] # {}})

(* a window one day too long *)
window_TooLong == max_consecutive + 2

window == max_consecutive + 1

MaxConsecutive(ax) ==
    D >= window =>
        \A i \in Staff : \A start \in 0..(D - window) :
            WorkedDays(ax, i, start..(start + window - 1)) <= max_consecutive

(* a total that is only bounded above by the target *)
TotalOK_AtMost(ti) == ti \in 0..(5 * D) /\ ti <= per_person_total

(* ti == sum of x over the period, and ti == per_person_total *)
TotalOK(ti) == ti \in 0..(5 * D) /\ ti = per_person_total

PersonTotal(ax) == \A i \in Staff : TotalOK(AssignedCount(ax, i, Days))

WeekendICU(ax) ==
    allow_weekend_icu =>
        LET weekend_days == {d \in Days : weekday(d) >= 5} IN
        /\ Cardinality({di \in weekend_days \X Staff : "ICU" \in ax[di[1]][di[2]]})
              <= max_weekend_icu_total
        /\ \A i \in Staff :
              Cardinality({d \in weekend_days : "ICU" \in ax[d][i]})
                  <= max_weekend_icu_per_person

Hd == {d \in Days : weekday(d) >= 5 \/ d \in holidays}
hol(ax, i) == AssignedCount(ax, i, Hd)

(* no bound on the difference between two J1 counts *)
HolidayBalance_Unbounded(ax, fair_slack) == TRUE

HolidayBalance(ax, fair_slack) ==
    \A a \in J1_idx : \A b \in J1_idx :
        a < b => /\ hol(ax, a) - hol(ax, b) <= fair_slack
                 /\ hol(ax, b) - hol(ax, a) <= fair_slack

(* j1max is a free variable bounded below by the J1 counts *)
J1DominatesJ2(ax) ==
    (J1_idx # {} /\ J2_idx # {}) =>
        \E j1max \in 0..(5 * D) :
            /\ \A a \in J1_idx : j1max >= hol(ax, a)
            /\ \A j \in J2_idx : hol(ax, j) <= j1max

day12(ax, i) == KindCount(ax, i, "ER_Day1") + KindCount(ax, i, "ER_Day2")

ShiftBalance(ax) ==
    \A a \in J1_idx : \A b \in J1_idx :
        a < b =>
            /\ KindCount(ax, a, "ER_Early") - KindCount(ax, b, "ER_Early") \in -2..2
            /\ KindCount(ax, a, "ER_Late") - KindCount(ax, b, "ER_Late") \in -2..2
            /\ day12(ax, a) - day12(ax, b) \in -2..2

CrossOK(ax, fair_slack) ==
    /\ MaxConsecutive(ax)
    /\ PersonTotal(ax)
    /\ WeekendICU(ax)
    /\ HolidayBalance(ax, fair_slack)
    /\ J1DominatesJ2(ax)
    /\ ShiftBalance(ax)

HardOK(ax, fair_slack, p) ==
    /\ \A d \in Days : RowOK(d, ax[d], p)
    /\ CrossOK(ax, fair_slack)

----------------------------------------------------------------------------
(* build_and_solve: the preference part of the objective.  pref_soft holds *)
(* the records that are not posted as hard constraints; each entry adds at *)
(* most one penalty term, coef times a 0/1 literal.                        *)
RECURSIVE Concat(_)
Concat(ss) == IF ss = <<>> THEN <<>> ELSE Head(ss) \o Concat(Tail(ss))

SoftEntry(p, k, disabled_pref_ids) ==
    LET rec == p[k]
        entry(pr) == <<[rid |-> k - 1, d |-> rec.date, i |-> rec.name,
                        kind |-> rec.kind, pr |-> pr]>>
    IN  IF ~PrefApplies(rec) THEN <<>>
        ELSE IF EffPriority(rec) = "A"
             THEN (IF AHard(rec) THEN <<>> ELSE entry("B"))
             ELSE (IF (k - 1) \in disabled_pref_ids THEN <<>> ELSE entry(EffPriority(rec)))

pref_soft(p, disabled_pref_ids) ==
    Concat([k \in 1..Len(p) |-> SoftEntry(p, k, disabled_pref_ids)])

SoftWeight(e) == IF e.pr = "B" THEN weight_pref_B ELSE weight_pref_C

(* the branch of the penalty loop that entry e takes, "none" when it adds no term *)
TermBranch(e) ==
    CASE SoftWeight(e) <= 0 -> "none"
      [] e.kind = "off" -> "off"
      [] e.kind = "early" /\ Req(e.d, "ER_Early") = 1 -> "early"
      [] e.kind = "late" /\ Req(e.d, "ER_Late") = 1 -> "late"
      [] e.kind = "day1" /\ Req(e.d, "ER_Day1") = 1 -> "day1"
      [] e.kind = "day2" /\ AllowD2(e.d) -> "day2"
      [] e.kind = "day" /\ (Req(e.d, "ER_Day1") = 1 \/ AllowD2(e.d)) -> "day"
      [] e.kind = "icu" /\ e.i \in J2_idx /\ AllowICU(e.d) -> "icu"
      [] e.kind = "vacation" -> "vacation"
      [] OTHER -> "none"

(* the 0/1 literal the term of entry e multiplies, on the cell c of (e.d, e.i) *)
Miss(e, c) ==
    CASE e.kind = "off" -> Cardinality(c)
      [] e.kind = "early" -> 1 - Val(c, "ER_Early")
      [] e.kind = "late" -> 1 - Val(c, "ER_Late")
      [] e.kind = "day1" -> 1 - Val(c, "ER_Day1")
      [] e.kind = "day2" -> 1 - Val(c, "ER_Day2")
      [] e.kind = "day" ->
            IF \/ Req(e.d, "ER_Day1") = 1 /\ Val(c, "ER_Day1") = 1
               \/ AllowD2(e.d) /\ Val(c, "ER_Day2") = 1
            THEN 0 ELSE 1
      [] e.kind = "icu" -> 1 - Val(c, "ICU")
      [] e.kind = "vacation" -> 1 - Val(c, "VAC")
      [] OTHER -> 0

pref_terms(p, disabled_pref_ids) ==
    LET soft == pref_soft(p, disabled_pref_ids) IN
    Concat([k \in 1..Len(soft) |->
        IF TermBranch(soft[k]) = "none" THEN <<>>
        ELSE <<[rid |-> soft[k].rid, coef |-> 100 * SoftWeight(soft[k]),
                d |-> soft[k].d, i |-> soft[k].i, kind |-> soft[k].kind]>>])

RECURSIVE SumSeq(_)
SumSeq(sq) == IF sq = <<>> THEN 0 ELSE Head(sq) + SumSeq(Tail(sq))

(* value of the preference penalty on the assignment ax *)
PrefPenalty(ax, p, disabled_pref_ids) ==
    LET terms == pref_terms(p, disabled_pref_ids) IN
    SumSeq([k \in 1..Len(terms) |->
        terms[k].coef * Miss(terms[k], ax[terms[k].d][terms[k].i])])

(* Day2 / Day3 placement bonus: the default weights, and the coefficient of *)
(* the term (1 - placed) of day d                                          *)
weight_day2_weekday == 2
weight_day2_wed_bonus == 8
weight_day3_weekday == 1
weight_day3_wed_bonus == 6

BonusCoef(base, wed, d, weaken_day2_bonus) ==
    LET w100 == 100 * (base + (IF weekday(d) = 2 THEN wed ELSE 0)) IN
    IF weaken_day2_bonus THEN w100 \div 2 ELSE w100

bonus_terms(weaken_day2_bonus) ==
    Concat([k \in 1..D |->
        (IF AllowD2(k - 1)
         THEN <<[d |-> k - 1, kind |-> "ER_Day2",
                 coef |-> BonusCoef(weight_day2_weekday, weight_day2_wed_bonus,
                                    k - 1, weaken_day2_bonus)]>>
         ELSE <<>>)
        \o
        (IF AllowD3(k - 1)
         THEN <<[d |-> k - 1, kind |-> "ER_Day3",
                 coef |-> BonusCoef(weight_day3_weekday, weight_day3_wed_bonus,
                                    k - 1, weaken_day2_bonus)]>>
         ELSE <<>>)])

(* The 0/1 variables the objective introduces, each tied to the assignment *)
(* by an equality posted on the model.                                     *)
BoolVar == 0..1

Correct(e, c) ==
    CASE e.kind = "early" -> Val(c, "ER_Early")
      [] e.kind = "late" -> Val(c, "ER_Late")
      [] e.kind = "day1" -> Val(c, "ER_Day1")
      [] e.kind = "day2" -> Val(c, "ER_Day2")
      [] e.kind = "day" ->
            IF \/ Req(e.d, "ER_Day1") = 1 /\ Val(c, "ER_Day1") = 1
               \/ AllowD2(e.d) /\ Val(c, "ER_Day2") = 1
            THEN 1 ELSE 0
      [] e.kind = "icu" -> Val(c, "ICU")
      [] e.kind = "vacation" -> Val(c, "VAC")
      [] OTHER -> 0

(* the miss literal fixed to 0: the preference has to be met *)
SoftAux_Forced(e, c) ==
    SoftWeight(e) > 0 =>
        /\ \E assigned_any \in BoolVar : assigned_any = Cardinality(c)
        /\ TermBranch(e) = "off" => Cardinality(c) = 0
        /\ TermBranch(e) \notin {"none", "off"} => 0 + Correct(e, c) = 1

(* assigned_any == sum(x), and miss + correct == 1 where a term is added *)
SoftAux(e, c) ==
    SoftWeight(e) > 0 =>
        /\ \E assigned_any \in BoolVar : assigned_any = Cardinality(c)
        /\ TermBranch(e) \notin {"none", "off"} =>
              \E miss \in BoolVar : miss + Correct(e, c) = 1

(* placed == sum of x over the staff, on a day that admits the kind *)
BonusAux(d, r) ==
    /\ AllowD2(d) => \E placed \in BoolVar : placed = Count(r, "ER_Day2")
    /\ AllowD3(d) => \E placed3 \in BoolVar : placed3 = Count(r, "ER_Day3")

AuxOK(ax, p, disabled_pref_ids) ==
    LET soft == pref_soft(p, disabled_pref_ids) IN
    /\ \A k \in 1..Len(soft) : SoftAux(soft[k], ax[soft[k].d][soft[k].i])
    /\ \A d \in Days : BonusAux(d, ax[d])

(* solver parameters set before Solve; NoSeed: random_seed left unset *)
NoSeed == -1

(* eight workers and no seed whatever the reproducibility setting *)
solver_parameters_Parallel(repro_fix) ==
    [max_time_in_seconds |-> 20, num_search_workers |-> 8, random_seed |-> NoSeed]

solver_parameters(repro_fix) ==
    [max_time_in_seconds |-> 20,
     num_search_workers |-> IF fix_repro /\ repro_fix THEN 1 ELSE 8,
     random_seed |-> IF fix_repro /\ repro_fix THEN seed_val ELSE NoSeed]

----------------------------------------------------------------------------
(* The external solver: the assignments that satisfy the posted model.     *)
(* Candidate rows are built staff by staff from the cells each (d, i)      *)
(* admits, dropping a partial row in which two staff hold the same kind    *)
(* other than VAC (no day has more than one place of such a kind);         *)
(* candidate assignments are built day by day, dropping a prefix once no   *)
(* completion can meet the exact per-person total or once it breaks a      *)
(* consecutive-day window.  Every candidate is then checked against the    *)
(* whole model.                                                            *)
Cells == {{}} \cup {{s} : s \in ShiftSet}

CellDomain(d, i, p) == {c2 : c2 \in {c \in Cells : CellOK(d, i, c, p)}}

Distinct(pr, k, c) ==
    \A j \in 0..(k - 1) : (pr[j] \cap c) \subseteq {"VAC"}

RECURSIVE RowCandidates(_, _, _, _)
RowCandidates(R, i, d, p) ==
    IF i = N THEN R
    ELSE LET dom == CellDomain(d, i, p)
             ext(pr, c) == [j \in 0..i |-> IF j = i THEN c ELSE pr[j]]
         IN  RowCandidates(
                 UNION {{ext(pr, c) : c \in {c2 \in dom : Distinct(pr, i, c2)}} : pr \in R},
                 i + 1, d, p)

Rows(d, p) == {r2 : r2 \in {r \in RowCandidates({<<>>}, 0, d, p) : RowOK(d, r, p)}}

PrefixOK(px, k) ==
    \A i \in Staff :
        /\ \E rest \in 0..(D - k) : TotalOK(AssignedCount(px, i, 0..(k - 1)) + rest)
        /\ k >= window =>
              WorkedDays(px, i, (k - window)..(k - 1)) <= max_consecutive

RECURSIVE Extend(_, _, _)
Extend(S, d, p) ==
    IF d = D THEN S
    ELSE LET rows == Rows(d, p)
             ext(px, r) == [k \in 0..d |-> IF k = d THEN r ELSE px[k]]
         IN  Extend(UNION {{ext(px, r) : r \in {r2 \in rows : PrefixOK(ext(px, r2), d + 1)}} :
                               px \in S},
                    d + 1, p)

Solutions(fair_slack, p) ==
    {ax \in Extend({<<>>}, 0, p) : CrossOK(ax, fair_slack)}

(* the assignments that satisfy every constraint of the model built with   *)
(* the given fair_slack, disabled_pref_ids and weaken_day2_bonus           *)
Feasible(fair_slack, disabled_pref_ids, weaken_day2_bonus, p) ==
    {ax \in Solutions(fair_slack, p) : AuxOK(ax, p, disabled_pref_ids)}

(* the values of the solver's status enumeration named by status_map *)
CpSolverStatus == {"OPTIMAL", "FEASIBLE", "INFEASIBLE", "MODEL_INVALID", "UNKNOWN"}

(* solver.Solve: the raw verdicts the solver may return for the model *)
RawVerdicts(sols) ==
    IF sols = {} THEN {"INFEASIBLE", "UNKNOWN"}
    ELSE {"OPTIMAL", "FEASIBLE", "UNKNOWN"}

status_map(raw) ==
    CASE raw = "OPTIMAL" -> "OPTIMAL"
      [] raw = "FEASIBLE" -> "FEASIBLE"
      [] raw = "INFEASIBLE" -> "INFEASIBLE"
      [] raw = "MODEL_INVALID" -> "MODEL_INVALID"
      [] raw = "UNKNOWN" -> "UNKNOWN"
      [] OTHER -> "UNKNOWN"

(* only a proven optimum counted as solved *)
Solved_OptimalOnly(st) == st = "OPTIMAL"

Solved(st) == st \in {"OPTIMAL", "FEASIBLE"}

NoValues == <<>>

(* build_and_solve(fair_slack, disabled_pref_ids, weaken_day2_bonus) on    *)
(* the prefs list p: the (status, values) pairs it may return              *)
build_and_solve(fair_slack, disabled_pref_ids, weaken_day2_bonus, p) ==
    LET sols == Feasible(fair_slack, disabled_pref_ids, weaken_day2_bonus, p) IN
    {[status |-> status_map(raw), x |-> ax] :
        <<raw, ax>> \in
            {ra \in RawVerdicts(sols) \X (sols \cup {NoValues}) :
                (ra[1] \in {"OPTIMAL", "FEASIBLE"}) <=> (ra[2] # NoValues)}}

----------------------------------------------------------------------------
(* validate_A_requests(prefs_df, DAY_template): the itemized violations    *)
IsA(rec) == rec.priority = "A"

a_off(p) ==
    {<<p[k].date, p[k].name>> : k \in
        {k \in 1..Len(p) : IsA(p[k]) /\ p[k].kind = "off" /\ PrefApplies(p[k])}}

Issue(rule, rec) == [rule |-> rule, date |-> rec.date, name |-> rec.name, kind |-> rec.kind]

OffCoexistIssues(rec, p) ==
    IF ~(IsA(rec) /\ PrefApplies(rec)) THEN <<>>
    ELSE (IF <<rec.date, rec.name>> \in a_off(p) /\ rec.kind # "off"
          THEN <<Issue("off_with_other_A", rec)>> ELSE <<>>)
         \o
         (IF <<rec.date, rec.name>> \in a_off(p) /\ rec.kind = "vacation"
          THEN <<Issue("off_with_vacation", rec)>> ELSE <<>>)

J1IcuIssues(rec) ==
    IF IsA(rec) /\ rec.kind = "icu" /\ rec.name \in J1_idx
    THEN <<Issue("j1_icu", rec)>> ELSE <<>>

SlotClosedIssues(rec) ==
    IF ~(IsA(rec) /\ PrefApplies(rec)) THEN <<>>
    ELSE LET di == rec.date
             one(c, rule) == IF c THEN <<Issue(rule, rec)>> ELSE <<>>
         IN  one(rec.kind = "early" /\ DAY(di).req["ER_Early"] = 0, "early_stopped")
             \o one(rec.kind = "late" /\ DAY(di).req["ER_Late"] = 0, "late_stopped")
             \o one(rec.kind = "day1" /\ DAY(di).req["ER_Day1"] = 0, "day1_stopped")
             \o one(rec.kind = "day2" /\ ~DAY(di).allow_d2, "day2_closed")
             \o one(rec.kind = "icu" /\ ~DAY(di).allow_icu, "icu_closed")

(* the (slot, day) key an A record counts towards, NoKey when it has none *)
NoKey == <<"none", -1>>

SlotKey(rec) ==
    IF ~(IsA(rec) /\ InPeriod(rec.date)) THEN NoKey
    ELSE LET di == rec.date IN
         CASE rec.kind = "early" /\ DAY(di).req["ER_Early"] = 1 -> <<"ER_Early", di>>
           [] rec.kind = "late" /\ DAY(di).req["ER_Late"] = 1 -> <<"ER_Late", di>>
           [] rec.kind = "day1" /\ DAY(di).req["ER_Day1"] = 1 -> <<"ER_Day1", di>>
           [] rec.kind = "day2" /\ DAY(di).allow_d2 -> <<"ER_Day2", di>>
           [] rec.kind = "icu" /\ DAY(di).allow_icu -> <<"ICU", di>>
           [] OTHER -> NoKey

a_counts(p, key) == Cardinality({k \in 1..Len(p) : SlotKey(p[k]) = key})

(* a slot reported only from its third request on *)
Overbooked_FromThree(cnt) == cnt > 2

Overbooked(cnt) == cnt > 1

(* one issue per over-booked key, in the order the keys were first seen *)
OverbookedIssues(p) ==
    Concat([k \in 1..Len(p) |->
        IF /\ SlotKey(p[k]) # NoKey
           /\ \A j \in 1..(k - 1) : SlotKey(p[j]) # SlotKey(p[k])
           /\ Overbooked(a_counts(p, SlotKey(p[k])))
        THEN <<[rule |-> "over_capacity", date |-> SlotKey(p[k])[2], name |-> -1,
                kind |-> SlotKey(p[k])[1]]>>
        ELSE <<>>])

validate_A_requests(p) ==
    Concat([k \in 1..Len(p) |-> OffCoexistIssues(p[k], p)])
    \o Concat([k \in 1..Len(p) |-> J1IcuIssues(p[k])])
    \o Concat([k \in 1..Len(p) |-> SlotClosedIssues(p[k])])
    \o OverbookedIssues(p)

----------------------------------------------------------------------------
(* The result projector: whether the solved assignment ax meets a B/C      *)
(* request, and the per-person totals shown with the result.               *)
sat(ax, d, i, kind) ==
    LET c == ax[d][i]
        assigned_any == Cardinality(c) > 0
        ok1 == Req(d, "ER_Day1") = 1 /\ Val(c, "ER_Day1") = 1
        ok2 == AllowD2(d) /\ Val(c, "ER_Day2") = 1
    IN  CASE kind = "off" -> ~assigned_any
          [] kind = "early" -> Req(d, "ER_Early") = 1 /\ Val(c, "ER_Early") = 1
          [] kind \in {"day1", "day_1", "d1"} -> ok1
          [] kind \in {"day2", "day_2", "d2"} -> ok2
          [] kind = "day" -> ok1 \/ ok2
          [] kind = "late" -> Req(d, "ER_Late") = 1 /\ Val(c, "ER_Late") = 1
          [] kind = "icu" -> i \in J2_idx /\ AllowICU(d) /\ Val(c, "ICU") = 1
          [] kind = "vacation" -> Val(c, "VAC") = 1
          [] OTHER -> FALSE

(* positions of the records the counting loop does not skip *)
prefs_now(p) == {k \in 1..Len(p) : PrefApplies(p[k])}
Counted(p) == {k \in prefs_now(p) : p[k].priority \in {"B", "C"}}
Ok(ax, p, k) == sat(ax, p[k].date, p[k].name, p[k].kind)

total_of(p, pr, nm) ==
    Cardinality({k \in Counted(p) : p[k].priority = pr /\ p[k].name = nm})
hit_of(ax, p, pr, nm) ==
    Cardinality({k \in Counted(p) : p[k].priority = pr /\ p[k].name = nm /\ Ok(ax, p, k)})

MaxExamples == 5

unmet_examples(ax, p) ==
    LET miss == SelectSeq([k \in 1..Len(p) |-> k], LAMBDA k : k \in Counted(p) /\ ~Ok(ax, p, k))
        shown == SubSeq(miss, 1, IF Len(miss) < MaxExamples THEN Len(miss) ELSE MaxExamples)
    IN  [k \in 1..Len(shown) |->
            [date |-> p[shown[k]].date, name |-> p[shown[k]].name, kind |-> p[shown[k]].kind]]

Max0(n) == IF n > 0 THEN n ELSE 0

Projection(ax, p) ==
    LET total_B == [i \in Staff |-> total_of(p, "B", i)]
        hit_B == [i \in Staff |-> hit_of(ax, p, "B", i)]
        total_C == [i \in Staff |-> total_of(p, "C", i)]
        hit_C == [i \in Staff |-> hit_of(ax, p, "C", i)]
        total_unmet_B == SumSeq([k \in 1..N |-> Max0(total_B[k - 1] - hit_B[k - 1])])
        total_unmet_C == SumSeq([k \in 1..N |-> Max0(total_C[k - 1] - hit_C[k - 1])])
    IN  [total_B |-> total_B, hit_B |-> hit_B, total_C |-> total_C, hit_C |-> hit_C,
         total_unmet_B |-> total_unmet_B, total_unmet_C |-> total_unmet_C,
         unmet_examples |-> unmet_examples(ax, p),
         head |-> IF total_unmet_B + total_unmet_C > 0 THEN "error" ELSE "success"]

NoProjection == [head |-> "none"]

----------------------------------------------------------------------------
(* Capacity pre-check *)
sum_target == per_person_total * N
min_required == 3 * D

----------------------------------------------------------------------------
(* Inputs *)
KINDS == {"off", "early", "late", "day", "day1", "day2", "icu", "vacation"}

Pref(d, nm, k, pr) == [date |-> d, name |-> nm, kind |-> k, priority |-> pr]
Pin(d, nm, s) == [date |-> d, name |-> nm, shift |-> s]

J1J1J2J2 == <<"J1", "J1", "J2", "J2">>
J1J2J2J2 == <<"J1", "J2", "J2", "J2">>
J1J1J2J2J2 == <<"J1", "J1", "J2", "J2", "J2">>
J1J2J1J2J2J2 == <<"J1", "J2", "J1", "J2", "J2", "J2">>

(* the last two days of the period are the ones the base roster leaves open *)
OpenDay1 == NumDays - 2
OpenDay2 == NumDays - 1

PrefPool ==
    <<Pref(OpenDay1, 0, "off", "A"),
      Pref(OpenDay1, 0, "early", "A"),
      Pref(OpenDay1, 1, "early", "A"),
      Pref(OpenDay2, 3, "vacation", "A"),
      Pref(OpenDay2, 0, "icu", "A"),
      Pref(0, 0, "day2", "A"),
      Pref(OpenDay1, 1, "vacation", "C"),
      Pref(OpenDay2, 2, "off", "B"),
      Pref(NumDays, 0, "off", "A")>>

(* B / C requests: on a slot the special table may drop, on a kept slot,   *)
(* ICU asked by a J1, and the either-day kind                              *)
SoftPool ==
    <<Pref(OpenDay1, 2, "early", "B"),
      Pref(OpenDay1, 2, "late", "C"),
      Pref(OpenDay2, 0, "icu", "C"),
      Pref(OpenDay2, 3, "day", "B")>>

PinPool ==
    <<Pin(OpenDay1, 0, "ER_Early"), Pin(OpenDay2, 3, "ICU"), Pin(0, 0, "ER_Day2"),
      Pin(OpenDay2, 0, "ICU")>>

(* a roster already fixed for the first D - 2 days: on day d staff d+1, d+2 *)
(* and d+3 (mod N) are pinned to the three base kinds                     *)
BasePins(n) ==
    Concat([k \in 1..(NumDays - 2) |->
        <<Pin(k - 1, k % n, "ER_Early"), Pin(k - 1, (k + 1) % n, "ER_Day1"),
          Pin(k - 1, (k + 2) % n, "ER_Late")>>])

(* the lists of at most n records of a pool, in the pool's order *)
Picks(pool, n) ==
    {[k \in 1..Len(ix) |-> pool[ix[k]]] :
        ix \in {sq \in UNION {[1..m -> 1..Len(pool)] : m \in 0..n} :
                   \A a \in 1..(Len(sq) - 1) : sq[a] < sq[a + 1]}}

PrefLists == Picks(PrefPool, MaxPrefs)
SoftLists == Picks(SoftPool, MaxPrefs)
ExtraPins == Picks(PinPool, MaxPins)

NoDrop == [d \in 0..(NumDays - 1) |-> "none"]
DropOn(day, base) == [d \in 0..(NumDays - 1) |-> IF d = day THEN base ELSE "none"]
SpecialMaps == {NoDrop} \cup {DropOn(OpenDay1, b) : b \in BaseSet} \cup {DropOn(0, "ER_Day1")}

StarsDefault == [b |-> 2, c |-> 2]
StarsLow == [b |-> 1, c |-> 3]
StarsHigh == [b |-> 3, c |-> 1]

ReproOn(seed) == [fix_repro |-> TRUE, seed_val |-> seed]
ReproOff == [fix_repro |-> FALSE, seed_val |-> NoSeed]

WeekendIcuOff == [allow |-> FALSE, total |-> 0, per_person |-> 0]
WeekendIcuOn == [allow |-> TRUE, total |-> 1, per_person |-> 1]
WeekendIcuOnZero == [allow |-> TRUE, total |-> 0, per_person |-> 0]

(* one base kind dropped on each of the two open days *)
DropOnOpenDays ==
    [d \in 0..(NumDays - 1) |->
        IF d = OpenDay1 THEN "ER_Early" ELSE IF d = OpenDay2 THEN "ER_Late" ELSE "none"]

(* the input families explored: the calendar, the numeric settings, the    *)
(* preference list and the extra pins are each varied around a default     *)
CalendarInputs ==
    [start_wd : {1, 3}, holidays : {{}, {1}}, closed_days : {{}, {0}},
     special_map : SpecialMaps, allow_day3 : BOOLEAN,
     weekend_icu : {WeekendIcuOff, WeekendIcuOn},
     staff_grade : {J1J1J2J2}, per_person_total : {NumDays - 1},
     max_consecutive : {3}, s_fairness : {3},
     stars : {StarsDefault}, repro : {ReproOn(42)},
     prefs : {<<>>}, extra_pins : {<<>>}]

SettingInputs ==
    [start_wd : {1, 3}, holidays : {{}}, closed_days : {{}},
     special_map : {NoDrop}, allow_day3 : {FALSE},
     weekend_icu : {WeekendIcuOff},
     staff_grade : {J1J1J2J2, J1J2J2J2},
     per_person_total : {NumDays - 2, NumDays - 1, NumDays},
     max_consecutive : {3, 4}, s_fairness : {1, 3},
     stars : {StarsDefault}, repro : {ReproOn(42)},
     prefs : {<<>>}, extra_pins : {<<>>}]

RequestInputs ==
    [start_wd : {3}, holidays : {{}}, closed_days : {{}, {0}},
     special_map : {NoDrop, DropOn(OpenDay1, "ER_Early")}, allow_day3 : {FALSE},
     weekend_icu : {WeekendIcuOff},
     staff_grade : {J1J1J2J2}, per_person_total : {NumDays - 1},
     max_consecutive : {3}, s_fairness : {3},
     stars : {StarsDefault}, repro : {ReproOn(42)},
     prefs : PrefLists, extra_pins : {<<>>}]

PinInputs ==
    [start_wd : {3}, holidays : {{}}, closed_days : {{}},
     special_map : {NoDrop, DropOn(OpenDay1, "ER_Early")}, allow_day3 : {FALSE},
     weekend_icu : {WeekendIcuOff, WeekendIcuOn},
     staff_grade : {J1J1J2J2}, per_person_total : {NumDays - 1},
     max_consecutive : {3}, s_fairness : {3},
     stars : {StarsDefault}, repro : {ReproOn(42)},
     prefs : {sq \in PrefLists : Len(sq) <= 1}, extra_pins : ExtraPins]

ObjectiveInputs ==
    [start_wd : {3}, holidays : {{}}, closed_days : {{0}},
     special_map : {DropOn(OpenDay1, "ER_Early")}, allow_day3 : {FALSE},
     weekend_icu : {WeekendIcuOff},
     staff_grade : {J1J1J2J2}, per_person_total : {NumDays - 1},
     max_consecutive : {3}, s_fairness : {3},
     stars : {StarsDefault, StarsLow, StarsHigh},
     repro : {ReproOn(0), ReproOn(42), ReproOff},
     prefs : {sq \in PrefLists : Len(sq) <= 1}, extra_pins : {<<>>}]

(* weekday holidays with one J1 and three J2 *)
TierInputs ==
    [start_wd : {1}, holidays : {{1}, {OpenDay1}}, closed_days : {{}, {OpenDay1}},
     special_map : {DropOn(OpenDay1, "ER_Late")}, allow_day3 : {FALSE},
     weekend_icu : {WeekendIcuOff, WeekendIcuOn, WeekendIcuOnZero},
     staff_grade : {J1J2J2J2}, per_person_total : {NumDays - 1},
     max_consecutive : {3}, s_fairness : {3},
     stars : {StarsDefault}, repro : {ReproOn(42)},
     prefs : {<<>>}, extra_pins : {<<>>}]

(* larger rosters, each with the largest per-person total that does not    *)
(* exceed the base need of three places a day: six staff on the plain      *)
(* calendar, five staff with one base kind dropped on each open day        *)
RosterInputs ==
    [start_wd : {3}, holidays : {{}}, closed_days : {{}},
     special_map : {NoDrop}, allow_day3 : {FALSE},
     weekend_icu : {WeekendIcuOff},
     staff_grade : {J1J2J1J2J2J2}, per_person_total : {(3 * NumDays) \div 6},
     max_consecutive : {3}, s_fairness : {2, 3},
     stars : {StarsDefault}, repro : {ReproOn(42)},
     prefs : {<<>>}, extra_pins : {<<>>}]
    \cup
    [start_wd : {3}, holidays : {{}}, closed_days : {{}},
     special_map : {DropOnOpenDays}, allow_day3 : {FALSE},
     weekend_icu : {WeekendIcuOff},
     staff_grade : {J1J1J2J2J2}, per_person_total : {(3 * NumDays) \div 5},
     max_consecutive : {3}, s_fairness : {3},
     stars : {StarsDefault}, repro : {ReproOn(42)},
     prefs : {<<>>}, extra_pins : {<<>>}]

(* B / C requests only, on weekdays *)
SoftInputs ==
    [start_wd : {1}, holidays : {{}}, closed_days : {{}},
     special_map : {NoDrop, DropOn(OpenDay1, "ER_Early")}, allow_day3 : {FALSE},
     weekend_icu : {WeekendIcuOff},
     staff_grade : {J1J1J2J2}, per_person_total : {NumDays - 1},
     max_consecutive : {3}, s_fairness : {3},
     stars : {StarsDefault}, repro : {ReproOn(42)},
     prefs : SoftLists, extra_pins : {<<>>}]

Inputs ==
    TierInputs \cup RosterInputs \cup SoftInputs \cup CalendarInputs
        \cup SettingInputs \cup RequestInputs \cup PinInputs \cup ObjectiveInputs

NoProbe ==
    [fair_slack_base |-> 0, weaken_base |-> FALSE, prefs_base |-> <<>>,
     A_only |-> <<>>, pos |-> 0, blockers |-> <<>>, log |-> <<>>]

Setup(inp) ==
    /\ D = NumDays
    /\ start_wd = inp.start_wd
    /\ holidays = inp.holidays
    /\ closed_days = inp.closed_days
    /\ special_map = inp.special_map
    /\ staff_grade = inp.staff_grade
    /\ per_person_total = inp.per_person_total
    /\ max_consecutive = inp.max_consecutive
    /\ allow_day3 = inp.allow_day3
    /\ allow_weekend_icu = inp.weekend_icu.allow
    /\ max_weekend_icu_total = inp.weekend_icu.total
    /\ max_weekend_icu_per_person = inp.weekend_icu.per_person
    /\ s_fairness = inp.s_fairness
    /\ s_pref_b = inp.stars.b
    /\ s_pref_c = inp.stars.c
    /\ fix_repro = inp.repro.fix_repro
    /\ seed_val = inp.repro.seed_val
    /\ prefs = inp.prefs
    /\ pins = BasePins(Len(inp.staff_grade)) \o inp.extra_pins
    /\ status = "none"
    /\ x = NoValues
    /\ attempts = <<>>
    /\ out = <<>>
    /\ issues = <<>>
    /\ verdict = "none"
    /\ parameters = <<>>
    /\ probe = NoProbe
    /\ projection = NoProjection
    /\ models = <<>>

Init ==
    /\ \E inp \in Inputs : Setup(inp)
    /\ pc = "start"

----------------------------------------------------------------------------
(* The script, top to bottom, of one run with the button pressed *)

(* a target sum equal to the minimum counted as short *)
CapacityShort_OrEqual == sum_target <= min_required

CapacityShort == sum_target < min_required

(* sum_target < min_required: st.error and st.stop *)
CapacityCheck ==
    /\ pc = "start"
    /\ IF CapacityShort
       THEN /\ pc' = "halted"
            /\ out' = Append(out, "capacity_error")
       ELSE /\ pc' = "ready"
            /\ out' = out
    /\ UNCHANGED <<inputs, prefs, status, x, attempts, calls, views>>

fair_slack == STAR_TO_FAIR_SLACK(s_fairness)

(* if run_btn: one build_and_solve, then the error stop or the projection *)
RunBtn ==
    /\ pc = "ready"
    /\ \E o \in build_and_solve(fair_slack, {}, FALSE, prefs) :
        /\ status' = o.status
        /\ x' = o.x
        /\ attempts' = Append(attempts,
               [fair_slack |-> fair_slack, disabled_pref_ids |-> {},
                weaken_day2_bonus |-> FALSE, prefs |-> prefs, status |-> o.status,
                terms |-> pref_terms(prefs, {})])
        /\ parameters' = Append(parameters,
               [repro_fix |-> fix_repro, block |-> solver_parameters(fix_repro),
                terms |-> pref_terms(prefs, {})])
        /\ IF ~Solved(o.status)
           THEN /\ out' = out \o <<"status", "no_feasible_error">>
                /\ projection' = projection
                /\ pc' = "stopped"
           ELSE /\ out' = out \o <<"status", "result">>
                /\ projection' = Projection(o.x, prefs)
                /\ pc' = "shown"
    /\ UNCHANGED <<inputs, prefs, issues, verdict, probe, models>>

Next == CapacityCheck \/ RunBtn

Spec == Init /\ [][Next]_vars

----------------------------------------------------------------------------
(* The functions of the script called on their own: validate_A_requests,   *)
(* the status normalisation, and the set-up of a solve (the model's        *)
(* preference terms and the solver parameters) for either value of the     *)
(* repro_fix argument.                                                     *)
ValidatePool ==
    PrefPool \o <<Pref(OpenDay2, 3, "late", "A"), Pref(OpenDay2, 2, "icu", "A"),
                  Pref(OpenDay2, 3, "icu", "A")>>

ValidateInputs ==
    [start_wd : {1, 3}, holidays : {{}}, closed_days : {{}, {0}},
     special_map : {NoDrop, DropOn(OpenDay1, "ER_Early")}, allow_day3 : {FALSE},
     weekend_icu : {WeekendIcuOff, WeekendIcuOn},
     staff_grade : {J1J1J2J2}, per_person_total : {NumDays - 1},
     max_consecutive : {3}, s_fairness : {3},
     stars : {StarsDefault}, repro : {ReproOn(42)},
     prefs : Picks(ValidatePool, MaxPrefs), extra_pins : {<<>>}]

ReproInputs ==
    [start_wd : {3}, holidays : {{}}, closed_days : {{}},
     special_map : {NoDrop}, allow_day3 : {FALSE},
     weekend_icu : {WeekendIcuOff},
     staff_grade : {J1J1J2J2}, per_person_total : {NumDays - 1},
     max_consecutive : {3}, s_fairness : {3},
     stars : {StarsDefault, StarsLow},
     repro : {ReproOn(0), ReproOn(42), ReproOff},
     prefs : Picks(ValidatePool, 1), extra_pins : {<<>>}]

InitCalls ==
    /\ \E inp \in ValidateInputs \cup ReproInputs : Setup(inp)
    /\ pc = "call"

ValidateCall ==
    /\ pc = "call"
    /\ issues' = validate_A_requests(prefs)
    /\ pc' = "validated"
    /\ UNCHANGED <<inputs, prefs, status, x, attempts, out, verdict, parameters, probe, views>>

(* status_map.get(status, "UNKNOWN") on a raw verdict *)
StatusMapCall ==
    /\ pc = "call"
    /\ \E raw \in CpSolverStatus :
        /\ verdict' = raw
        /\ status' = status_map(raw)
    /\ pc' = "mapped"
    /\ UNCHANGED <<inputs, prefs, x, attempts, out, issues, parameters, probe, views>>

(* the model and the solver parameters of one build_and_solve call *)
SolveSetup ==
    /\ pc \in {"call", "setup"}
    /\ Len(parameters) < 2
    /\ \E repro_fix \in BOOLEAN :
        parameters' = Append(parameters,
            [repro_fix |-> repro_fix, block |-> solver_parameters(repro_fix),
             terms |-> pref_terms(prefs, {})])
    /\ pc' = "setup"
    /\ UNCHANGED <<inputs, prefs, status, x, attempts, out, issues, verdict, probe, views>>

NextCalls == ValidateCall \/ StatusMapCall \/ SolveSetup

SpecCalls == InitCalls /\ [][NextCalls]_vars

----------------------------------------------------------------------------
(* find_blocking_A_once(fair_slack_base, weaken_base): one action for the  *)
(* entry, one for each iteration of the loop over the A records, one for   *)
(* the return.                                                             *)
ProbePool ==
    <<Pref(OpenDay1, 0, "off", "A"),
      Pref(OpenDay1, 0, "early", "A"),
      Pref(OpenDay1, 1, "early", "A"),
      Pref(OpenDay2, 3, "vacation", "A"),
      Pref(OpenDay1, 1, "vacation", "C")>>

ProbeInputs ==
    [start_wd : {3}, holidays : {{}}, closed_days : {{}},
     special_map : {NoDrop, DropOn(OpenDay1, "ER_Early")}, allow_day3 : {FALSE},
     weekend_icu : {WeekendIcuOff},
     staff_grade : {J1J1J2J2}, per_person_total : {NumDays - 1},
     max_consecutive : {3}, s_fairness : {3},
     stars : {StarsDefault}, repro : {ReproOn(42)},
     prefs : Picks(ProbePool, MaxPrefs), extra_pins : {<<>>}]

InitProbe ==
    /\ \E inp \in ProbeInputs : Setup(inp)
    /\ pc = "probe"

(* the ids of the rows of A_only, in stored order *)
A_only(prefs_base) ==
    Concat([k \in 1..Len(prefs_base) |->
        IF prefs_base[k].priority = "A" THEN <<k - 1>> ELSE <<>>])

(* tmp = prefs_base.copy(); tmp.loc[rid, "priority"] = "Z" *)
Neutralised(prefs_base, rid) == [prefs_base EXCEPT ![rid + 1].priority = "Z"]

(* the stored list left at the probe's copy *)
ProbeRestore_Skipped(bak, tmp) == tmp

(* st.session_state.prefs = bak *)
ProbeRestore(bak, tmp) == bak

ProbeStart ==
    /\ pc = "probe"
    /\ \E args \in {<<1, FALSE>>, <<3, TRUE>>} :
        probe' = [fair_slack_base |-> args[1], weaken_base |-> args[2],
                  prefs_base |-> prefs, A_only |-> A_only(prefs), pos |-> 1,
                  blockers |-> <<>>, log |-> <<>>]
    /\ pc' = "probing"
    /\ UNCHANGED <<inputs, prefs, status, x, attempts, out, issues, verdict, parameters, views>>

ProbeStep ==
    /\ pc = "probing"
    /\ probe.pos <= Len(probe.A_only)
    /\ LET rid == probe.A_only[probe.pos]
           tmp == Neutralised(probe.prefs_base, rid)
           bak == prefs
       IN  \E s \in {o.status : o \in build_and_solve(probe.fair_slack_base, {},
                                                      probe.weaken_base, tmp)} :
            /\ prefs' = ProbeRestore(bak, tmp)
            /\ probe' = [probe EXCEPT
                   !.pos = @ + 1,
                   !.blockers = IF Solved(s)
                                THEN Append(@, [rid |-> rid, row |-> probe.prefs_base[rid + 1]])
                                ELSE @,
                   !.log = Append(@, [rid |-> rid, seen |-> tmp, status |-> s,
                                      fair_slack |-> probe.fair_slack_base,
                                      disabled_pref_ids |-> {},
                                      weaken_day2_bonus |-> probe.weaken_base])]
    /\ UNCHANGED <<inputs, pc, status, x, attempts, out, issues, verdict, parameters, views>>

ProbeReturn ==
    /\ pc = "probing"
    /\ probe.pos > Len(probe.A_only)
    /\ pc' = "probed"
    /\ UNCHANGED <<inputs, prefs, status, x, attempts, out, calls, views>>

NextProbe == ProbeStart \/ ProbeStep \/ ProbeReturn

SpecProbe == InitProbe /\ [][NextProbe]_vars

----------------------------------------------------------------------------
(* build_and_solve called on the same inputs with different values of      *)
(* disabled_pref_ids and weaken_day2_bonus: each call's model is recorded  *)
(* with the assignments that satisfy it and with its objective terms.      *)
InitBuild ==
    /\ \E inp \in SoftInputs : Setup(inp)
    /\ pc = "build"

BuiltModel(disabled_pref_ids, weaken_day2_bonus) ==
    [disabled_pref_ids |-> disabled_pref_ids,
     weaken_day2_bonus |-> weaken_day2_bonus,
     feasible |-> Feasible(fair_slack, disabled_pref_ids, weaken_day2_bonus, prefs),
     terms |-> pref_terms(prefs, disabled_pref_ids),
     bonus |-> bonus_terms(weaken_day2_bonus)]

(* the call of the run handler: nothing disabled, bonus at full weight *)
BuildBaseline ==
    /\ pc = "build"
    /\ models = <<>>
    /\ models' = <<BuiltModel({}, FALSE)>>
    /\ UNCHANGED <<inputs, prefs, pc, status, x, attempts, out, calls, projection>>

(* a later call with some B / C records disabled and either bonus weight *)
BuildVariant ==
    /\ pc = "build"
    /\ Len(models) = 1
    /\ \E dis \in SUBSET {k - 1 : k \in 1..Len(prefs)} : \E wk \in BOOLEAN :
          models' = Append(models, BuiltModel(dis, wk))
    /\ UNCHANGED <<inputs, prefs, pc, status, x, attempts, out, calls, projection>>

NextBuild == BuildBaseline \/ BuildVariant

SpecBuild == InitBuild /\ [][NextBuild]_vars

----------------------------------------------------------------------------
(* Properties of solved outcomes *)
Holders(d, s) == {i \in Staff : s \in x[d][i]}
NonWorking(d) == weekday(d) >= 5 \/ d \in holidays \/ d \in closed_days

(* C1: in every OPTIMAL or FEASIBLE outcome each staff member's number of  *)
(* (day, kind) assignments over the period, VAC included, equals           *)
(* per_person_total exactly.                                               *)
C1_ExactTotal ==
    Solved(status) =>
        \A i \in Staff :
            Cardinality({ds \in Days \X ShiftSet : ds[2] \in x[ds[1]][i]})
                = per_person_total

C1_Witness ==
    /\ Solved(status)
    /\ \E d \in Days : \E i \in Staff : "VAC" \in x[d][i]

(* C2: in every solved outcome, every day and base kind: the number of     *)
(* holders is 0 if the special override of that day names the kind, and   *)
(* exactly 1 otherwise.                                                    *)
C2_BaseCoverageExact ==
    Solved(status) =>
        \A d \in Days : \A base \in {"ER_Early", "ER_Day1", "ER_Late"} :
            Cardinality(Holders(d, base)) = (IF special_map[d] = base THEN 0 ELSE 1)

C2_Witness ==
    /\ Solved(status)
    /\ \E d \in Days : special_map[d] \in {"ER_Early", "ER_Day1", "ER_Late"}

(* C3: in every solved outcome ER_Day2 and ER_Day3 have at most one holder *)
(* a day, none on a Saturday, Sunday, holiday or closed day, and ER_Day3   *)
(* none on any day when allow_day3 is off.                                 *)
C3_OptionalOnlyWhenEnabled ==
    Solved(status) =>
        \A d \in Days :
            /\ Cardinality(Holders(d, "ER_Day2")) <= 1
            /\ Cardinality(Holders(d, "ER_Day3")) <= 1
            /\ NonWorking(d) => (Holders(d, "ER_Day2") = {} /\ Holders(d, "ER_Day3") = {})
            /\ ~allow_day3 => Holders(d, "ER_Day3") = {}

C3_Witness ==
    /\ Solved(status)
    /\ closed_days # {}
    /\ \E d \in Days : weekday(d) >= 5
    /\ \E d \in Days : Holders(d, "ER_Day3") # {}

(* C4: in every solved outcome, every staff member and every window of     *)
(* max_consecutive+1 contiguous days inside the period: at most            *)
(* max_consecutive days of the window carry an assignment.                 *)
C4_ConsecutiveCap ==
    Solved(status) =>
        \A i \in Staff : \A start \in Days :
            start + max_consecutive <= D - 1 =>
                Cardinality({d \in start..(start + max_consecutive) : x[d][i] # {}})
                    <= max_consecutive

C4_Witness ==
    /\ Solved(status)
    /\ \E i \in Staff : \E start \in Days :
        /\ start + max_consecutive <= D - 1
        /\ Cardinality({d \in start..(start + max_consecutive) : x[d][i] # {}})
              = max_consecutive

(* C5: in every solved outcome every pinned (day, staff, kind) is held,    *)
(* every Absolute early/late/day1/day2 request on a day where that slot is *)
(* enabled and every Absolute vacation request is held, and every Absolute *)
(* off request leaves that staff member with no kind that day.            *)
SlotEnabled(d, kind) ==
    CASE kind = "early" -> special_map[d] # "ER_Early"
      [] kind = "late" -> special_map[d] # "ER_Late"
      [] kind = "day1" -> special_map[d] # "ER_Day1"
      [] kind = "day2" -> ~NonWorking(d)
      [] kind = "vacation" -> TRUE
      [] OTHER -> FALSE

C5_PinsAndAbsoluteHonoured ==
    Solved(status) =>
        /\ \A k \in 1..Len(pins) :
              (pins[k].date \in Days /\ pins[k].name \in Staff /\ pins[k].shift \in ShiftSet)
                  => pins[k].shift \in x[pins[k].date][pins[k].name]
        /\ \A k \in 1..Len(prefs) :
              (prefs[k].priority = "A" /\ prefs[k].date \in Days /\ prefs[k].name \in Staff)
                  => /\ prefs[k].kind = "off" => x[prefs[k].date][prefs[k].name] = {}
                     /\ SlotEnabled(prefs[k].date, prefs[k].kind)
                           => AShift(prefs[k].kind) \in x[prefs[k].date][prefs[k].name]

C5_Witness ==
    /\ Solved(status)
    /\ \E k \in 1..Len(prefs) :
          prefs[k].priority = "A" /\ prefs[k].kind = "off" /\ prefs[k].date \in Days
    /\ \E k \in 1..Len(prefs) :
          /\ prefs[k].priority = "A" /\ prefs[k].kind = "day2"
          /\ SlotEnabled(prefs[k].date, "day2")
    /\ \E k \in 1..Len(pins) : pins[k].date \in Days

----------------------------------------------------------------------------
(* Properties of a run *)
RunEnded == pc \in {"halted", "stopped", "shown"}
WeakIds == {k - 1 : k \in {k \in 1..Len(prefs) : prefs[k].priority = "C"}}
FirstWeakId == CHOOSE id \in WeakIds : \A other \in WeakIds : id <= other

(* C6: the Absolute-request pre-check runs before the first solve attempt  *)
(* and a non-empty list of violations halts the run: build_and_solve is    *)
(* never called on inputs for which validate_A_requests reports a          *)
(* violation.                                                              *)
C6_NoSolveOnViolations ==
    Len(attempts) > 0 => Len(validate_A_requests(prefs)) = 0

(* C7: when the first attempt of a run is non-feasible the run does not    *)
(* end there: a second attempt follows with a widened fairness slack and   *)
(* the bonus unchanged.                                                    *)
C7_WidenedRetry ==
    (RunEnded /\ Len(attempts) > 0 /\ ~Solved(attempts[1].status)) =>
        /\ Len(attempts) >= 2
        /\ attempts[2].fair_slack > attempts[1].fair_slack
        /\ attempts[2].weaken_day2_bonus = attempts[1].weaken_day2_bonus

(* C9: when the run has no solved outcome after the slack and bonus        *)
(* relaxations and the model built with a Weak-soft record disabled can be *)
(* solved, the run disables the Weak-soft records one at a time in stored  *)
(* order, re-solving after each: an attempt with exactly the first         *)
(* Weak-soft id disabled is made before the run ends unsolved.             *)
C9_WeakSoftDisabledInOrder ==
    (/\ pc = "stopped"
     /\ WeakIds # {}
     /\ \E id \in WeakIds :
            \E o \in build_and_solve(fair_slack, {id}, TRUE, prefs) : Solved(o.status))
        => \E k \in 1..Len(attempts) : attempts[k].disabled_pref_ids = {FirstWeakId}

(* C10: when a run ends without a solved outcome the single-exclusion      *)
(* diagnostic has run and its result is reported: the blocking candidates, *)
(* or a distinct signal that no single blocker was found.                  *)
C10_DiagnosticReported ==
    (RunEnded /\ Len(attempts) > 0 /\ ~Solved(status)) =>
        \E k \in 1..Len(out) : out[k] \in {"blocking_candidates", "no_single_blocker"}

----------------------------------------------------------------------------
(* Properties of the requests that are not posted as hard constraints *)
Downgraded(rec) ==
    \/ rec.kind \in {"day", "icu"}
    \/ rec.kind \in {"early", "late", "day1", "day2"} /\ ~SlotEnabled(rec.date, rec.kind)

Satisfied(rec, c) ==
    CASE rec.kind = "day" -> "ER_Day1" \in c \/ "ER_Day2" \in c
      [] rec.kind = "icu" -> "ICU" \in c
      [] OTHER -> AShift(rec.kind) \in c

LastAttempt == attempts[Len(attempts)]

(* C11: every Absolute request that is not enforced as a hard constraint   *)
(* (kind day or icu, or early/late/day1/day2 on a day whose slot is        *)
(* disabled) stays in the model as a Strong-soft preference: in a solved   *)
(* outcome that does not satisfy it the objective holds a term for that    *)
(* record with coefficient 100 x weight_pref_B.                            *)
C11_DowngradedKeptAsStrongSoft ==
    Solved(status) =>
        \A k \in 1..Len(prefs) :
            (/\ prefs[k].priority = "A"
             /\ prefs[k].date \in Days /\ prefs[k].name \in Staff
             /\ Downgraded(prefs[k])
             /\ ~Satisfied(prefs[k], x[prefs[k].date][prefs[k].name]))
                => \E t \in 1..Len(LastAttempt.terms) :
                       /\ LastAttempt.terms[t].rid = k - 1
                       /\ LastAttempt.terms[t].coef = 100 * weight_pref_B

(* C13: an Absolute ICU request of a J1 staff member is rejected before    *)
(* solving: no solve attempt is made while such a request is stored.       *)
C13_J1IcuRejectedBeforeSolve ==
    Len(attempts) > 0 =>
        ~\E k \in 1..Len(prefs) :
            /\ prefs[k].priority = "A" /\ prefs[k].kind = "icu"
            /\ prefs[k].name \in Staff /\ staff_grade[prefs[k].name + 1] = "J1"

(* C15: the arithmetic check halts the run before any solve attempt when   *)
(* N x per_person_total < 3 x D, and lets the run go on to solving when    *)
(* N x per_person_total >= 3 x D.                                          *)
C15_CapacityGate ==
    pc # "start" =>
        /\ Len(staff_grade) * per_person_total < 3 * D
              => (pc = "halted" /\ Len(attempts) = 0)
        /\ Len(staff_grade) * per_person_total >= 3 * D
              => pc \in {"ready", "stopped", "shown"}

C15_Witness ==
    /\ pc = "halted"
    /\ Len(staff_grade) * per_person_total < 3 * D
    /\ out = <<"capacity_error">>

(* C16: a pin that conflicts with an enforced Absolute request (same day   *)
(* and staff with an Absolute off or an Absolute request for another kind, *)
(* or another staff member's Absolute request for the pinned slot) is      *)
(* reported as an input contradiction and no solve attempt is made.        *)
PinConflictsWithAbsolute ==
    \E k \in 1..Len(pins) : \E j \in 1..Len(prefs) :
        LET pin == pins[k]
            rec == prefs[j]
        IN  /\ pin.date \in Days /\ pin.name \in Staff /\ pin.shift \in ShiftSet
            /\ rec.priority = "A" /\ rec.date = pin.date /\ rec.name \in Staff
            /\ \/ rec.name = pin.name /\ rec.kind = "off"
               \/ /\ rec.name = pin.name
                  /\ rec.kind \in {"early", "late", "day1", "day2", "vacation"}
                  /\ SlotEnabled(rec.date, rec.kind)
                  /\ AShift(rec.kind) # pin.shift
               \/ /\ rec.name # pin.name
                  /\ rec.kind \in {"early", "late", "day1", "day2"}
                  /\ SlotEnabled(rec.date, rec.kind)
                  /\ AShift(rec.kind) = pin.shift

C16_PinConflictHaltsBeforeSolve ==
    Len(attempts) > 0 => ~PinConflictsWithAbsolute

----------------------------------------------------------------------------
(* Properties of the functions called on their own *)
ARequests(d, i, kinds) ==
    {k \in 1..Len(prefs) :
        /\ prefs[k].priority = "A" /\ prefs[k].date = d /\ prefs[k].name = i
        /\ prefs[k].kind \in kinds}

(* C12: validate_A_requests returns at least one violation for every       *)
(* (day, staff) that has both an Absolute leave request (off or vacation)  *)
(* and an Absolute request for a working kind (early, late, day1, day2).   *)
C12_LeaveAndWorkFlagged ==
    pc = "validated" =>
        \A d \in Days : \A i \in Staff :
            (/\ ARequests(d, i, {"off", "vacation"}) # {}
             /\ ARequests(d, i, {"early", "late", "day1", "day2"}) # {})
                => Len(issues) >= 1

(* C14: validate_A_requests returns a duplicate-capacity violation for a   *)
(* (day, slot) if and only if two or more Absolute requests target that    *)
(* slot on that day and the slot has capacity 1 that day.                  *)
SlotOfKind(kind) ==
    CASE kind = "early" -> "ER_Early"
      [] kind = "late" -> "ER_Late"
      [] kind = "day1" -> "ER_Day1"
      [] kind = "day2" -> "ER_Day2"
      [] kind = "icu" -> "ICU"
      [] OTHER -> "none"

CapacityOne(d, slot) ==
    CASE slot \in {"ER_Early", "ER_Late", "ER_Day1"} -> special_map[d] # slot
      [] slot = "ER_Day2" -> ~NonWorking(d)
      [] slot = "ICU" -> allow_weekend_icu \/ weekday(d) < 5

Targeting(d, slot) ==
    {k \in 1..Len(prefs) :
        prefs[k].priority = "A" /\ prefs[k].date = d /\ SlotOfKind(prefs[k].kind) = slot}

DuplicateReported(d, slot) ==
    \E n \in 1..Len(issues) :
        issues[n].rule = "over_capacity" /\ issues[n].date = d /\ issues[n].kind = slot

C14_DuplicateCapacityIff ==
    pc = "validated" =>
        \A d \in Days : \A slot \in {"ER_Early", "ER_Late", "ER_Day1", "ER_Day2", "ICU"} :
            DuplicateReported(d, slot)
                <=> (Cardinality(Targeting(d, slot)) >= 2 /\ CapacityOne(d, slot))

C14_Witness ==
    /\ pc = "validated"
    /\ \E d \in Days :
          DuplicateReported(d, "ER_Early") /\ Cardinality(Targeting(d, "ER_Early")) = 2

(* C17: with fix_repro on and repro_fix true every solve set-up asks for   *)
(* exactly one search worker and the supplied seed, otherwise for eight    *)
(* workers and no seed; two set-ups on the same inputs with the same       *)
(* repro_fix are identical.                                                *)
C17_SolverParameters ==
    \A k \in 1..Len(parameters) :
        /\ (fix_repro /\ parameters[k].repro_fix) =>
              /\ parameters[k].block.num_search_workers = 1
              /\ parameters[k].block.random_seed = seed_val
        /\ ~(fix_repro /\ parameters[k].repro_fix) =>
              /\ parameters[k].block.num_search_workers = 8
              /\ parameters[k].block.random_seed = NoSeed
        /\ \A j \in 1..Len(parameters) :
              parameters[j].repro_fix = parameters[k].repro_fix
                  => parameters[j] = parameters[k]

C17_Witness ==
    /\ Len(parameters) = 2
    /\ fix_repro /\ seed_val = 0
    /\ parameters[1].repro_fix /\ parameters[2].repro_fix
    /\ parameters[1].terms # <<>>

(* C18: for every raw verdict of the solver the status string returned is  *)
(* one of OPTIMAL, FEASIBLE, INFEASIBLE, UNKNOWN.                          *)
C18_FourStatuses ==
    pc = "mapped" => status \in {"OPTIMAL", "FEASIBLE", "INFEASIBLE", "UNKNOWN"}

----------------------------------------------------------------------------
(* Properties of the single-exclusion probe *)
AbsoluteRows(list) == {k \in 1..Len(list) : list[k].priority = "A"}

(* probe n saw the list of the call with only its own record's priority    *)
(* altered, and that record no longer Absolute                             *)
SeesOnlyOwnRecordAltered(n) ==
    LET seen == probe.log[n].seen
        own == probe.log[n].rid + 1
    IN  /\ Len(seen) = Len(probe.prefs_base)
        /\ \A j \in 1..Len(seen) : j # own => seen[j] = probe.prefs_base[j]
        /\ seen[own].priority \notin {"A", "B", "C"}
        /\ seen[own].date = probe.prefs_base[own].date
        /\ seen[own].name = probe.prefs_base[own].name
        /\ seen[own].kind = probe.prefs_base[own].kind

(* C19: find_blocking_A_once makes exactly one re-solve per priority-A     *)
(* preference record, each on the list with only that record neutralised   *)
(* and at the given fairness slack and bonus setting, and returns exactly  *)
(* the records whose re-solve was OPTIMAL or FEASIBLE.                     *)
C19_BlockersExact ==
    pc = "probed" =>
        /\ Len(probe.log) = Cardinality(AbsoluteRows(probe.prefs_base))
        /\ \A n \in 1..Len(probe.log) :
              /\ probe.log[n].rid + 1 \in AbsoluteRows(probe.prefs_base)
              /\ \A m \in 1..(n - 1) : probe.log[m].rid < probe.log[n].rid
              /\ SeesOnlyOwnRecordAltered(n)
              /\ probe.log[n].fair_slack = probe.fair_slack_base
              /\ probe.log[n].weaken_day2_bonus = probe.weaken_base
              /\ probe.log[n].disabled_pref_ids = {}
        /\ {probe.blockers[b].rid : b \in 1..Len(probe.blockers)}
              = {probe.log[n].rid : n \in
                    {n \in 1..Len(probe.log) : probe.log[n].status \in {"OPTIMAL", "FEASIBLE"}}}
        /\ \A b \in 1..Len(probe.blockers) :
              /\ probe.blockers[b].row = probe.prefs_base[probe.blockers[b].rid + 1]
              /\ probe.blockers[b].row.priority = "A"
              /\ \A a \in 1..(b - 1) : probe.blockers[a].rid < probe.blockers[b].rid

C19_Witness ==
    /\ pc = "probed"
    /\ Len(probe.log) = 2
    /\ probe.log[1].status = "INFEASIBLE"
    /\ probe.log[2].status = "FEASIBLE"
    /\ Len(probe.blockers) = 1

(* C20: the probe never mutates the stored inputs: when it returns the     *)
(* stored preference list is the one it was called with, and no probe sees *)
(* an alteration made for an earlier probe.                                *)
C20_ProbeLeavesInputs ==
    /\ pc = "probed" => prefs = probe.prefs_base
    /\ pc \in {"probing", "probed"} =>
          \A n \in 1..Len(probe.log) :
              \A j \in 1..Len(probe.prefs_base) :
                  (probe.log[n].seen[j] # probe.prefs_base[j]) => j = probe.log[n].rid + 1

C20_Witness ==
    /\ pc = "probed"
    /\ Len(probe.log) = 2
    /\ prefs # probe.log[1].seen
    /\ prefs # probe.log[2].seen

----------------------------------------------------------------------------
(* Properties of the calendar and tier constraints in solved outcomes *)
HolidayOrWeekend(d) == weekday(d) >= 5 \/ d \in holidays
OffDayCount(i) == Cardinality({d \in Days : HolidayOrWeekend(d) /\ x[d][i] # {}})
GradeOf(i) == staff_grade[i + 1]

(* C21: when both tiers are present, in every solved outcome each J2 staff *)
(* member's weekend/holiday assignment count is at most the largest        *)
(* weekend/holiday assignment count among the J1 staff.                    *)
C21_J1MaxDominatesJ2 ==
    (Solved(status) /\ (\E a \in Staff : GradeOf(a) = "J1")
                    /\ (\E j \in Staff : GradeOf(j) = "J2")) =>
        \A j \in Staff :
            GradeOf(j) = "J2" =>
                \E a \in Staff : GradeOf(a) = "J1" /\ OffDayCount(j) <= OffDayCount(a)

(* C23: with weekend ICU off, in every solved outcome nobody holds ICU on  *)
(* a Saturday, Sunday, holiday or closed day.                              *)
C23_NoIcuOnOffDays ==
    (Solved(status) /\ ~allow_weekend_icu) =>
        \A d \in Days :
            (HolidayOrWeekend(d) \/ d \in closed_days) => Holders(d, "ICU") = {}

(* C24: with weekend ICU on, in every solved outcome the ICU assignments   *)
(* on weekend or holiday days number at most max_weekend_icu_total over    *)
(* all staff and at most max_weekend_icu_per_person for each staff member. *)
C24_WeekendHolidayIcuCaps ==
    (Solved(status) /\ allow_weekend_icu) =>
        /\ Cardinality({di \in Days \X Staff :
                           HolidayOrWeekend(di[1]) /\ "ICU" \in x[di[1]][di[2]]})
              <= max_weekend_icu_total
        /\ \A i \in Staff :
              Cardinality({d \in Days : HolidayOrWeekend(d) /\ "ICU" \in x[d][i]})
                  <= max_weekend_icu_per_person

(* C25: in a solved run the weekend/holiday totals of any two J1 staff     *)
(* differ by at most the fairness slack the solve was given.               *)
C25_J1HolidayBalance ==
    Solved(status) =>
        \A a \in Staff : \A b \in Staff :
            (GradeOf(a) = "J1" /\ GradeOf(b) = "J1") =>
                OffDayCount(a) - OffDayCount(b) <= LastAttempt.fair_slack

(* a solved run in which two J1 staff differ by exactly the slack, not zero *)
C25_Witness ==
    /\ Solved(status)
    /\ \E a \in Staff : \E b \in Staff :
          /\ GradeOf(a) = "J1" /\ GradeOf(b) = "J1"
          /\ OffDayCount(a) - OffDayCount(b) = LastAttempt.fair_slack
          /\ LastAttempt.fair_slack > 0

(* C26: in a solved run ER_Day2 and ER_Day3 are held on a day only if      *)
(* ER_Day1 is held that day; on a day whose ER_Day1 is dropped by the      *)
(* special table neither is held.                                          *)
C26_Day23NeedDay1 ==
    Solved(status) =>
        \A d \in Days :
            /\ (Holders(d, "ER_Day2") # {} \/ Holders(d, "ER_Day3") # {})
                  => Holders(d, "ER_Day1") # {}
            /\ special_map[d] = "ER_Day1"
                  => (Holders(d, "ER_Day2") = {} /\ Holders(d, "ER_Day3") = {})

(* a solved run with ER_Day1 dropped on a day that admits ER_Day2 *)
C26_Witness ==
    /\ Solved(status)
    /\ \E d \in Days : special_map[d] = "ER_Day1" /\ AllowD2(d)
                        /\ Holders(d, "ER_Day1") = {}

(* C27: in a solved run VAC is held on (d, i) only if the preference list  *)
(* has a vacation record of tier A, B or C for that day and that person.   *)
C27_VacOnlyOnRequest ==
    Solved(status) =>
        \A d \in Days : \A i \in Staff :
            "VAC" \in x[d][i] =>
                \E k \in 1..Len(prefs) :
                    /\ prefs[k].kind = "vacation"
                    /\ prefs[k].priority \in {"A", "B", "C"}
                    /\ prefs[k].date = d /\ prefs[k].name = i

(* a solved run in which a requested VAC is held while somebody else has   *)
(* an open day without one                                                 *)
C27_Witness ==
    /\ Solved(status)
    /\ \E d \in Days : \E i \in Staff : \E j \in Staff :
          "VAC" \in x[d][i] /\ j # i /\ x[d][j] = {}

(* C28: in a solved run no J1 holds ICU, and a run with an ICU pin on a J1 *)
(* is never solved.                                                        *)
J1IcuPinned ==
    \E k \in 1..Len(pins) :
        PinApplies(pins[k]) /\ pins[k].shift = "ICU" /\ GradeOf(pins[k].name) = "J1"

C28_NoJ1Icu ==
    /\ Solved(status) =>
          \A d \in Days : \A i \in Staff : GradeOf(i) = "J1" => "ICU" \notin x[d][i]
    /\ (J1IcuPinned /\ pc \in {"shown", "stopped"}) => ~Solved(status)

J1IcuRequested ==
    \E k \in 1..Len(prefs) :
        PrefApplies(prefs[k]) /\ prefs[k].kind = "icu" /\ GradeOf(prefs[k].name) = "J1"

(* a solved run with an ICU request of a J1 in which a J2 holds ICU *)
C28_Witness ==
    /\ Solved(status)
    /\ J1IcuRequested
    /\ \E d \in Days : \E i \in Staff : GradeOf(i) = "J2" /\ "ICU" \in x[d][i]

(* C22: in a shown result, for every B or C record of a known staff member *)
(* on a day of the period, the projector counts the record as unmet        *)
(* exactly when the objective of the solve has a penalty term for that     *)
(* record whose miss literal is 1 on the solved assignment.                *)
C22_ProjectorAgreesWithObjective ==
    pc = "shown" =>
        \A k \in 1..Len(prefs) :
            (prefs[k].priority \in {"B", "C"} /\ PrefApplies(prefs[k])) =>
                ((k \in Counted(prefs) /\ ~Ok(x, prefs, k))
                 <=> \E t \in 1..Len(LastAttempt.terms) :
                        /\ LastAttempt.terms[t].rid = k - 1
                        /\ Miss(LastAttempt.terms[t],
                                x[LastAttempt.terms[t].d][LastAttempt.terms[t].i]) = 1)

(* C29: the models built for the same inputs and the same fair_slack have  *)
(* the same set of satisfying assignments, whatever disabled_pref_ids and  *)
(* weaken_day2_bonus they were built with.                                 *)
C29_FeasibleSetIndependent ==
    \A k \in 1..Len(models) : \A l \in 1..Len(models) :
        models[k].feasible = models[l].feasible

(* two models of a feasible input that differ in both parameters and in    *)
(* their objective terms                                                   *)
C29_Witness ==
    /\ Len(models) >= 2
    /\ models[1].feasible # {}
    /\ models[2].disabled_pref_ids # {} /\ models[2].weaken_day2_bonus
    /\ models[2].terms # models[1].terms
    /\ models[2].bonus # models[1].bonus

(* C30: when the capacity check has halted the run, no assignment          *)
(* satisfies the hard constraints of the model of those inputs.            *)
C30_CapacityCheckSound ==
    pc = "halted" => Feasible(fair_slack, {}, FALSE, prefs) = {}

============================================================================
